---- MODULE Spec2Model ----
(***************************************************************************)
(* Model of src/server/utils/operation-transform.js: the normalizer that   *)
(* turns a batch of mutation operations (standard Google Ads shape or      *)
(* Opteo shape) into Opteo shape, with warnings.                           *)
(*                                                                         *)
(* JavaScript values are tagged records [t, v]:                            *)
(*   undefined, null, string (a TLA+ string), number, array (a sequence),  *)
(*   object (a function from property names to values), function.          *)
(***************************************************************************)
EXTENDS Integers, Sequences, FiniteSets, TLC

(* ------------------------------------------------------------------ *)
(* JavaScript value layer                                              *)
(* ------------------------------------------------------------------ *)
Undefined == [t |-> "undefined"]
Null == [t |-> "null"]
Str(s) == [t |-> "string", v |-> s]
Num(n) == [t |-> "number", v |-> n]
Arr(q) == [t |-> "array", v |-> q]
Obj(f) == [t |-> "object", v |-> f]
Fn(n) == [t |-> "function", v |-> n]

\* typeof x
TypeOf(x) ==
  CASE x.t = "undefined" -> "undefined"
    [] x.t = "null" -> "object"
    [] x.t = "array" -> "object"
    [] x.t = "object" -> "object"
    [] x.t = "string" -> "string"
    [] x.t = "number" -> "number"
    [] x.t = "function" -> "function"

\* ToBoolean(x): the truthiness used by !x, x && y, x || y, if (x)
Truthy(x) ==
  CASE x.t = "undefined" -> FALSE
    [] x.t = "null" -> FALSE
    [] x.t = "string" -> x.v # ""
    [] x.t = "number" -> x.v # 0
    [] OTHER -> TRUE

\* Object.keys(x) for an object or an array (index strings)
Keys(x) ==
  CASE x.t = "object" -> DOMAIN x.v
    [] x.t = "array" -> {ToString(n - 1) : n \in 1..Len(x.v)}
    [] OTHER -> {}

\* x[k] for a property name k that is not inherited and x not null/undefined
Get(x, k) ==
  IF x.t = "object" /\ k \in DOMAIN x.v THEN x.v[k] ELSE Undefined

\* (k in x) for an object or array x and a non-inherited, non-index name k
In(k, x) == x.t = "object" /\ k \in DOMAIN x.v

\* { ...x, [k]: val }
SpreadWith(x, k, val) ==
  Obj([n \in Keys(x) \cup {k} |-> IF n = k THEN val ELSE x.v[n]])

\* const { [k]: _, ...rest } = x
RestWithout(x, k) ==
  Obj([n \in Keys(x) \ {k} |-> x.v[n]])

\* String(x), as a template literal converts x
RECURSIVE JoinComma(_)
JoinComma(q) ==
  IF Len(q) = 0 THEN ""
  ELSE LET h == Head(q)
           hs == CASE h.t = "string" -> h.v
                   [] h.t = "number" -> ToString(h.v)
                   [] h.t = "object" -> "[object Object]"
                   [] OTHER -> ""
       IN IF Len(q) = 1 THEN hs ELSE hs \o "," \o JoinComma(Tail(q))

ToStr(x) ==
  CASE x.t = "undefined" -> "undefined"
    [] x.t = "null" -> "null"
    [] x.t = "string" -> x.v
    [] x.t = "number" -> ToString(x.v)
    [] x.t = "array" -> JoinComma(x.v)
    [] x.t = "object" -> "[object Object]"
    [] x.t = "function" -> "function " \o x.v \o "() { [native code] }"

\* s.split('/')
RECURSIVE Split(_)
Split(s) ==
  LET slashes == {p \in 1..Len(s) : SubSeq(s, p, p) = "/"}
  IN IF slashes = {} THEN <<s>>
     ELSE LET p == CHOOSE m \in slashes : \A n \in slashes : m <= n
          IN <<SubSeq(s, 1, p - 1)>> \o Split(SubSeq(s, p + 1, Len(s)))

\* k.endsWith(suffix)
EndsWith(k, suffix) ==
  /\ Len(k) >= Len(suffix)
  /\ SubSeq(k, Len(k) - Len(suffix) + 1, Len(k)) = suffix

\* s.startsWith(prefix)
StartsWith(s, prefix) ==
  /\ Len(s) >= Len(prefix)
  /\ SubSeq(s, 1, Len(prefix)) = prefix

(* ------------------------------------------------------------------ *)
(* Static tables                                                       *)
(* ------------------------------------------------------------------ *)
ENTITIES_REQUIRING_RESOURCE_NAME_IN_CREATE == {"campaign_budget"}

RESOURCE_PATH_TO_ENTITY ==
  [campaigns |-> "campaign",
   adGroups |-> "ad_group",
   adGroupCriteria |-> "ad_group_criterion",
   campaignCriteria |-> "campaign_criterion",
   labels |-> "label",
   sharedSets |-> "shared_set",
   sharedCriteria |-> "shared_criterion",
   campaignBudgets |-> "campaign_budget",
   biddingStrategies |-> "bidding_strategy",
   ads |-> "ad_group_ad",
   adGroupAds |-> "ad_group_ad",
   assets |-> "asset",
   conversionActions |-> "conversion_action",
   customerNegativeCriteria |-> "customer_negative_criterion",
   campaignLabels |-> "campaign_label",
   adGroupLabels |-> "ad_group_label",
   customerLabels |-> "customer_label",
   keywordPlanCampaigns |-> "keyword_plan_campaign",
   keywordPlanAdGroups |-> "keyword_plan_ad_group",
   keywordPlanAdGroupKeywords |-> "keyword_plan_ad_group_keyword",
   extensionFeedItems |-> "extension_feed_item",
   campaignExtensionSettings |-> "campaign_extension_setting",
   adGroupExtensionSettings |-> "ad_group_extension_setting",
   remarketingActions |-> "remarketing_action",
   userLists |-> "user_list"]

\* The table is an object literal, so a lookup also sees the members every
\* object inherits from Object.prototype (all of them functions).
InheritedMembers ==
  {"constructor", "toString", "valueOf", "hasOwnProperty",
   "isPrototypeOf", "propertyIsEnumerable", "toLocaleString"}

\* RESOURCE_PATH_TO_ENTITY[resourceType]
LookupPath(resourceType) ==
  IF resourceType \in DOMAIN RESOURCE_PATH_TO_ENTITY
    THEN Str(RESOURCE_PATH_TO_ENTITY[resourceType])
  ELSE IF resourceType \in InheritedMembers
    THEN Fn(IF resourceType = "constructor" THEN "Object" ELSE resourceType)
  ELSE Undefined

(* ------------------------------------------------------------------ *)
(* Inference helpers                                                   *)
(* ------------------------------------------------------------------ *)
\* fault variant: the second segment (the customer id) looked up
inferEntityFromResourceName_WrongSegment(resourceName) ==
  IF ~Truthy(resourceName) \/ TypeOf(resourceName) # "string" THEN Null
  ELSE LET parts == Split(resourceName.v)
       IN IF Len(parts) >= 3 /\ parts[1] = "customers"
            THEN LET found == LookupPath(parts[2])
                 IN IF Truthy(found) THEN found ELSE Null
          ELSE Null

inferEntityFromResourceName(resourceName) ==
  IF ~Truthy(resourceName) \/ TypeOf(resourceName) # "string" THEN Null
  ELSE LET parts == Split(resourceName.v)
       IN IF Len(parts) >= 3 /\ parts[1] = "customers"
            THEN LET found == LookupPath(parts[3])
                 IN IF Truthy(found) THEN found ELSE Null
          ELSE Null

\* fault variant: the campaign_criterion rule tested before ad_group_criterion
inferEntityFromCreateResource_CampaignFirst(resource) ==
  IF ~Truthy(resource) \/ TypeOf(resource) # "object" THEN Null
  ELSE LET keys == Keys(resource)
           has(k) == k \in keys
       IN IF has("campaign") /\ (has("keyword") \/ has("negative"))
               /\ ~has("advertising_channel_type")
            THEN Str("campaign_criterion")
          ELSE IF has("ad_group") /\ (has("keyword") \/ has("negative") \/ has("placement"))
            THEN Str("ad_group_criterion")
          ELSE IF has("shared_set") THEN Str("shared_criterion")
          ELSE IF has("name") /\ has("text_label") THEN Str("label")
          ELSE IF has("campaign") /\ has("name") /\ ~has("keyword") /\ ~has("negative")
            THEN Str("ad_group")
          ELSE IF has("advertising_channel_type") THEN Str("campaign")
          ELSE IF has("amount_micros") /\ ~has("cpc_bid_micros") THEN Str("campaign_budget")
          ELSE IF \E k \in keys : EndsWith(k, "_asset") THEN Str("asset")
          ELSE IF has("type") /\ has("category") THEN Str("conversion_action")
          ELSE Null

inferEntityFromCreateResource(resource) ==
  IF ~Truthy(resource) \/ TypeOf(resource) # "object" THEN Null
  ELSE LET keys == Keys(resource)
           has(k) == k \in keys
       IN IF has("ad_group") /\ (has("keyword") \/ has("negative") \/ has("placement"))
            THEN Str("ad_group_criterion")
          ELSE IF has("campaign") /\ (has("keyword") \/ has("negative"))
                  /\ ~has("advertising_channel_type")
            THEN Str("campaign_criterion")
          ELSE IF has("shared_set") THEN Str("shared_criterion")
          ELSE IF has("name") /\ has("text_label") THEN Str("label")
          ELSE IF has("campaign") /\ has("name") /\ ~has("keyword") /\ ~has("negative")
            THEN Str("ad_group")
          ELSE IF has("advertising_channel_type") THEN Str("campaign")
          ELSE IF has("amount_micros") /\ ~has("cpc_bid_micros") THEN Str("campaign_budget")
          ELSE IF \E k \in keys : EndsWith(k, "_asset") THEN Str("asset")
          ELSE IF has("type") /\ has("category") THEN Str("conversion_action")
          ELSE Null

(* ------------------------------------------------------------------ *)
(* Operation classifier                                                *)
(* ------------------------------------------------------------------ *)
\* fault variant: `operation.resource` tested for truthiness
isOpteoFormat_TruthyResource(operation) ==
  /\ Truthy(operation)
  /\ TypeOf(Get(operation, "entity")) = "string"
  /\ Truthy(Get(operation, "resource"))

isOpteoFormat(operation) ==
  /\ Truthy(operation)
  /\ TypeOf(Get(operation, "entity")) = "string"
  /\ Get(operation, "resource") # Undefined

\* fault variant: update tested before create
getStandardOperationType_UpdateFirst(operation) ==
  IF ~Truthy(operation) \/ TypeOf(operation) # "object" THEN Null
  ELSE IF In("update", operation) THEN Str("update")
  ELSE IF In("create", operation) THEN Str("create")
  ELSE IF In("remove", operation) THEN Str("remove")
  ELSE Null

\* fault variant: remove tested before update
getStandardOperationType_RemoveFirst(operation) ==
  IF ~Truthy(operation) \/ TypeOf(operation) # "object" THEN Null
  ELSE IF In("create", operation) THEN Str("create")
  ELSE IF In("remove", operation) THEN Str("remove")
  ELSE IF In("update", operation) THEN Str("update")
  ELSE Null

getStandardOperationType(operation) ==
  IF ~Truthy(operation) \/ TypeOf(operation) # "object" THEN Null
  ELSE IF In("create", operation) THEN Str("create")
  ELSE IF In("update", operation) THEN Str("update")
  ELSE IF In("remove", operation) THEN Str("remove")
  ELSE Null

(* ------------------------------------------------------------------ *)
(* transformToOpteoFormat: a completion record, either a returned      *)
(* value or a thrown Error with its message.                           *)
(* ------------------------------------------------------------------ *)
Return(val) == [thrown |-> FALSE, value |-> val]
Throw(msg) == [thrown |-> TRUE, message |-> msg]

\* The `Operation ${index}: ` prefix every message of the module starts with
OperationTag(index) == "Operation " \o ToString(index) \o ": "

\* fault variant: the shape classifier also consulted for an update
inferFromResource_AnyVerb(opType, resource) ==
  LET byName == IF Truthy(Get(resource, "resource_name"))
                  THEN inferEntityFromResourceName(Get(resource, "resource_name"))
                  ELSE Null
  IN IF ~Truthy(byName) THEN inferEntityFromCreateResource(resource) ELSE byName

\* lines 182-190: inference for a create/update resource
inferFromResource(opType, resource) ==
  LET byName == IF Truthy(Get(resource, "resource_name"))
                  THEN inferEntityFromResourceName(Get(resource, "resource_name"))
                  ELSE Null
  IN IF ~Truthy(byName) /\ opType = "create"
       THEN inferEntityFromCreateResource(resource)
       ELSE byName

\* fault variant: the hint preferred over inference
applyEntityHint_HintFirst(operation, entity) ==
  IF Truthy(Get(operation, "_entity")) THEN Get(operation, "_entity") ELSE entity

\* lines 193-196: the explicit _entity hint
applyEntityHint(operation, entity) ==
  IF ~Truthy(entity) /\ Truthy(Get(operation, "_entity"))
    THEN Get(operation, "_entity")
    ELSE entity

\* fault variant: no entity is exempted
requiresResourceName_Nothing(entity) == FALSE

\* ENTITIES_REQUIRING_RESOURCE_NAME_IN_CREATE.has(entity)
requiresResourceName(entity) ==
  entity.t = "string" /\ entity.v \in ENTITIES_REQUIRING_RESOURCE_NAME_IN_CREATE

\* fault variant: only a campaign create is stripped
stripsResourceName_CampaignOnly(opType, entity, resource) ==
  /\ opType = "create"
  /\ Truthy(Get(resource, "resource_name"))
  /\ entity = Str("campaign")

\* lines 209-210: does the create lose its resource_name?
stripsResourceName(opType, entity, resource) ==
  /\ opType = "create"
  /\ Truthy(Get(resource, "resource_name"))
  /\ ~requiresResourceName(entity)

\* lines 193-220: hint, unresolved check, create-only stripping, result
FinishTransform(operation, index, opType, inferred, resource) ==
  LET entity == applyEntityHint(operation, inferred)
  IN IF ~Truthy(entity)
       THEN Throw(OperationTag(index)
                  \o "Could not infer entity type. Please use Opteo format: "
                  \o "{ entity: \"campaign\", operation: \"" \o opType
                  \o "\", resource: {...} } "
                  \o "or add \"_entity\" field to your operation.")
     ELSE Return(Obj([entity |-> entity,
                      operation |-> Str(opType),
                      resource |-> IF stripsResourceName(opType, entity, resource)
                                     THEN RestWithout(resource, "resource_name")
                                     ELSE resource]))

transformToOpteoFormat(operation, index) ==
  LET opType == getStandardOperationType(operation)
  IN IF ~Truthy(opType)
       THEN Throw(OperationTag(index)
                  \o "Invalid format. Expected { create: {...} }, { update: {...} }, "
                  \o "{ remove: \"...\" }, "
                  \o "or Opteo format { entity: \"...\", operation: \"...\", resource: {...} }")
     ELSE IF opType.v = "remove"
       THEN LET resourceName == Get(operation, "remove")
            IN IF TypeOf(resourceName) # "string"
                 THEN Throw(OperationTag(index)
                            \o "'remove' value must be a resource_name string")
               ELSE FinishTransform(operation, index, opType.v,
                                    inferEntityFromResourceName(resourceName),
                                    resourceName)
     ELSE LET resource == Get(operation, opType.v)
          IN IF ~Truthy(resource) \/ TypeOf(resource) # "object"
               THEN Throw(OperationTag(index) \o "'" \o opType.v
                          \o "' value must be an object")
             ELSE FinishTransform(operation, index, opType.v,
                                  inferFromResource(opType.v, resource), resource)

\* line 251: the warning pushed for a transformed item
TransformWarning(index, transformed) ==
  OperationTag(index) \o "Transformed from standard format (entity: "
  \o ToStr(Get(transformed, "entity")) \o ")"

\* line 239: an Opteo-format remove whose resource is an object
needsRemoveRepair(op) ==
  /\ Get(op, "operation") = Str("remove")
  /\ Truthy(Get(op, "resource"))
  /\ TypeOf(Get(op, "resource")) = "object"

\* fault variant: no fallback to the resource itself
repairedRemove_NameOnly(op) ==
  SpreadWith(op, "resource", Get(Get(op, "resource"), "resource_name"))

\* lines 240-243: { ...op, resource: op.resource.resource_name || op.resource }
repairedRemove(op) ==
  SpreadWith(op, "resource",
             IF Truthy(Get(Get(op, "resource"), "resource_name"))
               THEN Get(Get(op, "resource"), "resource_name")
               ELSE Get(op, "resource"))

(* ------------------------------------------------------------------ *)
(* Inputs: the operations a caller may pass                            *)
(* ------------------------------------------------------------------ *)
MaxOps == 2

CampaignName == Str("customers/123/campaigns/456")
LabelName == Str("customers/123/labels/789")

CampaignUpdate == Obj([resource_name |-> CampaignName, status |-> Str("PAUSED")])
StatusOnly == Obj([status |-> Str("PAUSED")])
ChannelOnly == Obj([advertising_channel_type |-> Str("SEARCH")])
CampaignCreate ==
  Obj([resource_name |-> Str("customers/123/campaigns/-1"),
       name |-> Str("Test Campaign"),
       advertising_channel_type |-> Str("SEARCH")])
BudgetCreate ==
  Obj([resource_name |-> Str("customers/123/campaignBudgets/-1"),
       amount_micros |-> Num(50000000)])
EmptyNameCreate ==
  Obj([resource_name |-> Str(""), advertising_channel_type |-> Str("SEARCH")])
LabelCreate ==
  Obj([name |-> Str("Test Label"),
       text_label |-> Obj([background_color |-> Str("#FF0000")])])
UnknownCreate == Obj([some_unknown_field |-> Str("value")])
NameOnly == Obj([name |-> Str("Test Item")])
TempNamed == Obj([resource_name |-> Str("tmp-1"), name |-> Str("Test Item")])

OpteoItems ==
  { Obj([entity |-> Str("campaign"), operation |-> Str("update"),
         resource |-> CampaignUpdate]),
    Obj([entity |-> Str("label"), operation |-> Str("remove"),
         resource |-> LabelName]),
    Obj([entity |-> Str("label"), operation |-> Str("remove"),
         resource |-> Obj([resource_name |-> LabelName])]),
    Obj([entity |-> Str("label"), operation |-> Str("remove"),
         resource |-> Obj([id |-> Num(789)])]),
    Obj([entity |-> Str("campaign"), operation |-> Str("create"),
         resource |-> Null]),
    Obj([entity |-> Str("label"), operation |-> Str("remove"),
         resource |-> Obj([resource_name |-> LabelName]), note |-> Str("cleanup")]),
    Obj([entity |-> Str("label"), operation |-> Str("remove"),
         resource |-> Obj([resource_name |-> Str(""), id |-> Num(789)])]) }

StandardItems ==
  { Obj([update |-> CampaignUpdate]),
    Obj([update |-> StatusOnly]),
    Obj([update |-> ChannelOnly]),
    Obj([update |-> StatusOnly, _entity |-> Str("campaign")]),
    Obj([update |-> CampaignUpdate, _entity |-> Str("label")]),
    Obj([update |-> StatusOnly, _entity |-> Str("")]),
    Obj([update |-> Arr(<<Str("x")>>)]),
    Obj([create |-> CampaignCreate]),
    Obj([create |-> BudgetCreate]),
    Obj([create |-> EmptyNameCreate]),
    Obj([create |-> LabelCreate]),
    Obj([create |-> UnknownCreate]),
    Obj([create |-> NameOnly, _entity |-> Str("label")]),
    Obj([create |-> NameOnly, _entity |-> Num(7)]),
    Obj([create |-> ChannelOnly, _entity |-> Str("label")]),
    Obj([create |-> TempNamed, _entity |-> Str("campaign_budget")]),
    Obj([create |-> TempNamed, _entity |-> Str("label")]),
    Obj([create |-> Str("invalid")]),
    Obj([create |-> Null, _entity |-> Str("campaign")]),
    Obj([create |-> Arr(<< >>), _entity |-> Str("campaign")]),
    Obj([create |-> ChannelOnly, update |-> CampaignUpdate]),
    Obj([remove |-> LabelName]),
    Obj([remove |-> LabelName, _entity |-> Str("campaign")]),
    Obj([remove |-> Str("customers/123/campaignBudgets/5")]),
    Obj([update |-> CampaignUpdate, remove |-> LabelName]),
    Obj([remove |-> Str("customers/123/unknownThings/1")]),
    Obj([remove |-> Str("customers/123/unknownThings/1"), _entity |-> Str("label")]),
    Obj([remove |-> Str("customers/123/constructor/1")]),
    Obj([remove |-> Obj([resource_name |-> LabelName])]),
    Obj([remove |-> Num(5), _entity |-> Str("label")]) }

MalformedItems ==
  { Obj([invalid |-> Str("format")]),
    Obj([_entity |-> Str("label")]),
    Null,
    Str("create"),
    Arr(<<Obj([create |-> LabelCreate])>>) }

Items == OpteoItems \cup StandardItems \cup MalformedItems

Inputs == UNION {[1..n -> Items] : n \in 0..MaxOps}

(* ------------------------------------------------------------------ *)
(* normalizeOperations as a state machine: one action per loop         *)
(* iteration outcome, one for the return.                              *)
(* ------------------------------------------------------------------ *)
VARIABLES operations, i, normalizedOps, warnings, pc, outcome

\* A helper exercised on its own: its argument and what it returned.
\* round counts the calls of normalizeOperations (the second one is fed
\* the first one's output).
VARIABLES helperArg, helperRet, round

aside == <<helperArg, helperRet, round>>

vars == <<operations, i, normalizedOps, warnings, pc, outcome, helperArg, helperRet, round>>

Running == [status |-> "running"]
Returned(ops, ws) == [status |-> "returned", operations |-> ops, warnings |-> ws]
Thrown(msg) == [status |-> "thrown", message |-> msg]

\* operations[i], the code's zero-based index
At(k) == operations[k + 1]

Init ==
  /\ operations \in Inputs
  /\ i = 0
  /\ normalizedOps = << >>
  /\ warnings = << >>
  /\ pc = "loop"
  /\ outcome = Running
  /\ helperArg = Undefined
  /\ helperRet = Undefined
  /\ round = 1

\* fault variant: unshift instead of push
PushAsIs_First ==
  /\ pc = "loop" /\ i < Len(operations)
  /\ isOpteoFormat(At(i)) /\ ~needsRemoveRepair(At(i))
  /\ normalizedOps' = <<At(i)>> \o normalizedOps
  /\ i' = i + 1
  /\ UNCHANGED <<operations, warnings, pc, outcome>>
  /\ UNCHANGED aside

\* lines 244-246: Opteo-format item pushed as is
PushAsIs ==
  /\ pc = "loop" /\ i < Len(operations)
  /\ isOpteoFormat(At(i)) /\ ~needsRemoveRepair(At(i))
  /\ normalizedOps' = Append(normalizedOps, At(i))
  /\ i' = i + 1
  /\ UNCHANGED <<operations, warnings, pc, outcome>>
  /\ UNCHANGED aside

\* fault variant: the caller's record is repaired in place
PushRepairedRemove_InPlace ==
  /\ pc = "loop" /\ i < Len(operations)
  /\ isOpteoFormat(At(i)) /\ needsRemoveRepair(At(i))
  /\ operations' = [operations EXCEPT ![i + 1] = repairedRemove(At(i))]
  /\ normalizedOps' = Append(normalizedOps, repairedRemove(At(i)))
  /\ i' = i + 1
  /\ UNCHANGED <<warnings, pc, outcome>>
  /\ UNCHANGED aside

\* lines 239-243: Opteo-format remove with an object resource
PushRepairedRemove ==
  /\ pc = "loop" /\ i < Len(operations)
  /\ isOpteoFormat(At(i)) /\ needsRemoveRepair(At(i))
  /\ normalizedOps' = Append(normalizedOps, repairedRemove(At(i)))
  /\ i' = i + 1
  /\ UNCHANGED <<operations, warnings, pc, outcome>>
  /\ UNCHANGED aside

\* fault variant: the warning is forgotten
PushTransformed_Silent ==
  /\ pc = "loop" /\ i < Len(operations)
  /\ ~isOpteoFormat(At(i))
  /\ LET transformed == transformToOpteoFormat(At(i), i)
     IN /\ ~transformed.thrown
        /\ normalizedOps' = Append(normalizedOps, transformed.value)
  /\ i' = i + 1
  /\ UNCHANGED <<operations, warnings, pc, outcome>>
  /\ UNCHANGED aside

\* lines 248-251: standard-format item transformed
PushTransformed ==
  /\ pc = "loop" /\ i < Len(operations)
  /\ ~isOpteoFormat(At(i))
  /\ LET transformed == transformToOpteoFormat(At(i), i)
     IN /\ ~transformed.thrown
        /\ normalizedOps' = Append(normalizedOps, transformed.value)
        /\ warnings' = Append(warnings, TransformWarning(i, transformed.value))
  /\ i' = i + 1
  /\ UNCHANGED <<operations, pc, outcome>>
  /\ UNCHANGED aside

\* fault variant: the error is swallowed and the item skipped
TransformThrows_Skips ==
  /\ pc = "loop" /\ i < Len(operations)
  /\ ~isOpteoFormat(At(i))
  /\ transformToOpteoFormat(At(i), i).thrown
  /\ i' = i + 1
  /\ UNCHANGED <<operations, normalizedOps, warnings, pc, outcome>>
  /\ UNCHANGED aside

\* line 249: transformToOpteoFormat throws; the error leaves the function
TransformThrows ==
  /\ pc = "loop" /\ i < Len(operations)
  /\ ~isOpteoFormat(At(i))
  /\ LET transformed == transformToOpteoFormat(At(i), i)
     IN /\ transformed.thrown
        /\ outcome' = Thrown(transformed.message)
  /\ pc' = "done"
  /\ UNCHANGED <<operations, i, normalizedOps, warnings>>
  /\ UNCHANGED aside

\* line 255: the loop is over
ReturnResult ==
  /\ pc = "loop" /\ ~(i < Len(operations))
  /\ outcome' = Returned(normalizedOps, warnings)
  /\ pc' = "done"
  /\ UNCHANGED <<operations, i, normalizedOps, warnings>>
  /\ UNCHANGED aside

Next ==
  \/ PushAsIs
  \/ PushRepairedRemove
  \/ PushTransformed
  \/ TransformThrows
  \/ ReturnResult

Spec == Init /\ [][Next]_vars

(* ------------------------------------------------------------------ *)
(* A caller that passes the returned operations to a second call       *)
(* ------------------------------------------------------------------ *)
FeedBack ==
  /\ pc = "done" /\ outcome.status = "returned" /\ round = 1
  /\ operations' = outcome.operations
  /\ i' = 0
  /\ normalizedOps' = << >>
  /\ warnings' = << >>
  /\ pc' = "loop"
  /\ outcome' = Running
  /\ round' = 2
  /\ UNCHANGED <<helperArg, helperRet>>

ClosureNext ==
  \/ PushAsIs
  \/ PushRepairedRemove
  \/ PushTransformed
  \/ TransformThrows
  \/ ReturnResult
  \/ FeedBack

ClosureSpec == Init /\ [][ClosureNext]_vars

(* ------------------------------------------------------------------ *)
(* inferEntityFromResourceName exercised on its own                    *)
(* ------------------------------------------------------------------ *)
FirstSegments == {"customers", "customer", "accounts", ""}

ThirdSegments ==
  DOMAIN RESOURCE_PATH_TO_ENTITY
    \cup {"unknownThings", "campaign", "Campaigns", "", "constructor", "toString"}

ResourceNames ==
  {f : f \in FirstSegments}
    \cup {f \o "/123" : f \in FirstSegments}
    \cup {f \o "/123/" \o t : f \in FirstSegments, t \in ThirdSegments}
    \cup {f \o "/123/" \o t \o "/456" : f \in FirstSegments, t \in ThirdSegments}
    \cup {"customers//" \o t \o "/456/extra" : t \in ThirdSegments}

ParserInputs ==
  {Str(n) : n \in ResourceNames}
    \cup {Undefined, Null, Num(0), Num(123), Arr(<<Str("customers"), Str("123"), Str("campaigns")>>),
          Obj([resource_name |-> CampaignName])}

ParserInit ==
  /\ operations = << >>
  /\ i = 0
  /\ normalizedOps = << >>
  /\ warnings = << >>
  /\ outcome = Running
  /\ round = 1
  /\ pc = "parse"
  /\ helperArg \in ParserInputs
  /\ helperRet = Undefined

CallParser ==
  /\ pc = "parse"
  /\ helperRet' = inferEntityFromResourceName(helperArg)
  /\ pc' = "parsed"
  /\ UNCHANGED <<operations, i, normalizedOps, warnings, outcome, round, helperArg>>

ParserSpec == ParserInit /\ [][CallParser]_vars

(* ------------------------------------------------------------------ *)
(* inferEntityFromCreateResource exercised on its own                  *)
(* ------------------------------------------------------------------ *)
MaxFields == 3

FieldNames ==
  {"ad_group", "campaign", "keyword", "negative", "placement",
   "advertising_channel_type", "shared_set", "name", "text_label",
   "amount_micros", "cpc_bid_micros", "image_asset", "type", "category"}

\* a resource with the given fields (the classifier only reads the names)
ResourceWith(fields) == Obj([n \in fields |-> Str("x")])

ClassifierInputs ==
  {ResourceWith(fields) : fields \in {f \in SUBSET FieldNames : Cardinality(f) <= MaxFields}}
    \cup {Undefined, Null, Str("campaign"), Num(0), Arr(<<Str("shared_set")>>)}

ClassifierInit ==
  /\ operations = << >>
  /\ i = 0
  /\ normalizedOps = << >>
  /\ warnings = << >>
  /\ outcome = Running
  /\ round = 1
  /\ pc = "classify"
  /\ helperArg \in ClassifierInputs
  /\ helperRet = Undefined

CallClassifier ==
  /\ pc = "classify"
  /\ helperRet' = inferEntityFromCreateResource(helperArg)
  /\ pc' = "classified"
  /\ UNCHANGED <<operations, i, normalizedOps, warnings, outcome, round, helperArg>>

ClassifierSpec == ClassifierInit /\ [][CallClassifier]_vars

(* ------------------------------------------------------------------ *)
(* Vocabulary of the properties, stated on the values themselves       *)
(* ------------------------------------------------------------------ *)
HasKey(op, k) == op.t = "object" /\ k \in DOMAIN op.v

\* canonical shape: a string entity and a defined resource
Canonical(op) ==
  /\ HasKey(op, "entity") /\ op.v["entity"].t = "string"
  /\ HasKey(op, "resource") /\ op.v["resource"].t # "undefined"

Native(op) == ~Canonical(op)

\* the verb key of a native item, "none" when it has none
VerbKey(op) ==
  IF HasKey(op, "create") THEN "create"
  ELSE IF HasKey(op, "update") THEN "update"
  ELSE IF HasKey(op, "remove") THEN "remove"
  ELSE "none"

\* an item the normalizer rejects
Invalid(op) == Native(op) /\ transformToOpteoFormat(op, 0).thrown

Positions == 0..(Len(operations) - 1)
InvalidPositions == {k \in Positions : Invalid(At(k))}
FirstInvalid == CHOOSE k \in InvalidPositions : \A m \in InvalidPositions : k <= m

\* positions whose record has been built so far, and that record
Built == 0..(Len(normalizedOps) - 1)
Emitted(k) == normalizedOps[k + 1]

(* ------------------------------------------------------------------ *)
(* Properties                                                          *)
(* ------------------------------------------------------------------ *)

\* C1: all-or-nothing. When the input holds an invalid item, the call ends
\* by throwing an error tagged "Operation k:" for the first invalid position
\* k; the loop never went past k, and nothing is returned.
C1_AllOrNothing ==
  InvalidPositions # {} =>
    /\ i <= FirstInvalid
    /\ Len(normalizedOps) <= FirstInvalid
    /\ outcome.status # "returned"
    /\ pc = "done" =>
         /\ outcome.status = "thrown"
         /\ StartsWith(outcome.message, OperationTag(FirstInvalid))
         /\ DOMAIN outcome = {"status", "message"}

C1_Witness ==
  /\ pc = "done" /\ outcome.status = "thrown"
  /\ Len(operations) = 2 /\ FirstInvalid = 1
  /\ Len(normalizedOps) = 1

\* C2: on success there is one warning per native item and none for a
\* canonical item, in input order, each naming the item's index and the
\* entity of the record built for it.
NativeRank(k) == Cardinality({m \in 0..k : Native(At(m))})

C2_WarningsExactlyForNative ==
  outcome.status = "returned" =>
    /\ Len(outcome.warnings) = Cardinality({k \in Positions : Native(At(k))})
    /\ \A k \in Positions :
         Native(At(k)) =>
           LET w == outcome.warnings[NativeRank(k)]
               e == Get(outcome.operations[k + 1], "entity")
           IN /\ StartsWith(w, OperationTag(k))
              /\ EndsWith(w, "(entity: " \o ToStr(e) \o ")")

C2_Witness ==
  /\ outcome.status = "returned"
  /\ Len(operations) = 2
  /\ Canonical(At(0)) /\ Native(At(1))
  /\ Len(outcome.warnings) = 1

\* C3: on success the output has the input's length and output[k] is the
\* record derived from input[k], for every position k.
Derived(op, k) ==
  IF Canonical(op)
    THEN IF needsRemoveRepair(op) THEN repairedRemove(op) ELSE op
    ELSE transformToOpteoFormat(op, k).value

C3_OrderPreserved ==
  outcome.status = "returned" =>
    /\ Len(outcome.operations) = Len(operations)
    /\ \A k \in Positions : outcome.operations[k + 1] = Derived(At(k), k)

C3_Witness ==
  /\ outcome.status = "returned"
  /\ Len(operations) = 2
  /\ Native(At(0)) /\ Canonical(At(1))
  /\ outcome.operations[1] # outcome.operations[2]

\* C4: a sequence of canonical, correctly shaped items (string entity,
\* defined resource, a remove's resource a string) is returned unchanged,
\* with no warning.
CorrectlyShaped(op) ==
  /\ Canonical(op)
  /\ Get(op, "operation") = Str("remove") => Get(op, "resource").t = "string"

C4_CanonicalIdempotent ==
  (\A k \in Positions : CorrectlyShaped(At(k))) =>
    /\ outcome.status # "thrown"
    /\ Len(warnings) = 0
    /\ \A k \in Built : Emitted(k) = At(k)
    /\ pc = "done" =>
         /\ outcome.status = "returned"
         /\ outcome.operations = operations
         /\ outcome.warnings = << >>

C4_Witness ==
  /\ outcome.status = "returned"
  /\ Len(operations) = 2
  /\ \A k \in Positions : CorrectlyShaped(At(k))
  /\ \E k \in Positions : Get(At(k), "operation") = Str("remove")
  /\ \E k \in Positions : Get(At(k), "resource") = Null

\* the payload of a native create/update item, and the payload without
\* its resource_name field
Payload(op) == op.v[VerbKey(op)]
WithoutName(x) == [n \in DOMAIN x.v \ {"resource_name"} |-> x.v[n]]

NativeCreate(op) == Native(op) /\ VerbKey(op) = "create"
NativeUpdate(op) == Native(op) /\ VerbKey(op) = "update"
Exempt(e) == e = Str("campaign_budget")

\* C5 (as claimed): a native create whose payload has a resource_name
\* field, whatever its value, and whose entity is not campaign_budget, is
\* emitted without resource_name and with every other field unchanged.
C5_StripsAnyResourceName ==
  outcome.status = "returned" =>
    \A k \in Positions :
      (/\ NativeCreate(At(k))
       /\ HasKey(Payload(At(k)), "resource_name")
       /\ ~Exempt(Get(outcome.operations[k + 1], "entity")))
      => /\ ~HasKey(Get(outcome.operations[k + 1], "resource"), "resource_name")
         /\ Get(outcome.operations[k + 1], "resource").v = WithoutName(Payload(At(k)))

\* C5 (amended): the same, for a payload whose resource_name value is
\* truthy (for a string: non-empty); a present but falsy resource_name
\* stays in the emitted payload.
C5_StripsTruthyResourceName ==
  \A k \in Built :
    (/\ NativeCreate(At(k))
     /\ HasKey(Payload(At(k)), "resource_name")
     /\ ~Exempt(Get(Emitted(k), "entity")))
    => IF Truthy(Payload(At(k)).v["resource_name"])
         THEN /\ ~HasKey(Get(Emitted(k), "resource"), "resource_name")
              /\ Get(Emitted(k), "resource").v = WithoutName(Payload(At(k)))
         ELSE Get(Emitted(k), "resource") = Payload(At(k))

C5_Witness ==
  /\ outcome.status = "returned"
  /\ \E k \in Built :
       /\ NativeCreate(At(k))
       /\ HasKey(Payload(At(k)), "resource_name")
       /\ Get(Emitted(k), "entity") = Str("label")
       /\ DOMAIN Get(Emitted(k), "resource").v = {"name"}
  /\ \E k \in Built :
       /\ NativeCreate(At(k))
       /\ Get(Payload(At(k)), "resource_name") = Str("")
       /\ HasKey(Get(Emitted(k), "resource"), "resource_name")

\* C6: a native update of any entity, and a native create whose entity is
\* campaign_budget, is emitted with its payload unchanged, resource_name
\* included.
C6_IdentifierRetained ==
  \A k \in Built :
    (\/ NativeUpdate(At(k))
     \/ NativeCreate(At(k)) /\ Exempt(Get(Emitted(k), "entity")))
    => Get(Emitted(k), "resource") = Payload(At(k))

C6_Witness ==
  /\ outcome.status = "returned"
  /\ \E k \in Built :
       /\ NativeUpdate(At(k))
       /\ Truthy(Get(Get(Emitted(k), "resource"), "resource_name"))
  /\ \E k \in Built :
       /\ NativeCreate(At(k))
       /\ Exempt(Get(Emitted(k), "entity"))
       /\ Truthy(Get(Get(Emitted(k), "resource"), "resource_name"))

\* C7: the entity of an emitted native item is the parser's result on its
\* identifier when that is not none; else, for a create only, the shape
\* classifier's result when that is not none; else the _entity override.
Identifier(op) ==
  IF VerbKey(op) = "remove" THEN Payload(op) ELSE Get(Payload(op), "resource_name")

ByPrecedence(op) ==
  LET parsed == inferEntityFromResourceName(Identifier(op))
      shaped == inferEntityFromCreateResource(Payload(op))
  IN IF parsed # Null THEN parsed
     ELSE IF VerbKey(op) = "create" /\ shaped # Null THEN shaped
     ELSE Get(op, "_entity")

C7_ResolutionPrecedence ==
  \A k \in Built :
    Native(At(k)) => Get(Emitted(k), "entity") = ByPrecedence(At(k))

C7_Witness ==
  /\ outcome.status = "returned"
  /\ \E k \in Built :
       /\ NativeUpdate(At(k))
       /\ HasKey(At(k), "_entity")
       /\ Get(Emitted(k), "entity") # Get(At(k), "_entity")
  /\ \E k \in Built :
       /\ NativeCreate(At(k))
       /\ Get(Emitted(k), "entity") = Get(At(k), "_entity")

\* C8: a native item with a well-typed payload whose identifier does not
\* parse, whose payload (create only) is not classified, and that has no
\* _entity, is never emitted: the call throws "Operation k: Could not infer
\* entity type" at its position k. An update is not classified by shape.
WellTyped(op) ==
  CASE VerbKey(op) = "remove" -> Payload(op).t = "string"
    [] VerbKey(op) \in {"create", "update"} -> TypeOf(Payload(op)) = "object" /\ Payload(op) # Null
    [] OTHER -> FALSE

Unresolvable(op) ==
  /\ Native(op) /\ WellTyped(op)
  /\ inferEntityFromResourceName(Identifier(op)) = Null
  /\ VerbKey(op) = "create" => inferEntityFromCreateResource(Payload(op)) = Null
  /\ ~HasKey(op, "_entity")

C8_UnresolvableThrows ==
  /\ \A k \in Built : ~Unresolvable(At(k))
  /\ (outcome.status = "thrown" /\ Unresolvable(At(i))) =>
       StartsWith(outcome.message, OperationTag(i) \o "Could not infer entity type")
  /\ outcome.status = "returned" => \A k \in Positions : ~Unresolvable(At(k))

C8_Witness ==
  /\ outcome.status = "thrown"
  /\ i = 1
  /\ NativeUpdate(At(i)) /\ Unresolvable(At(i))
  /\ inferEntityFromCreateResource(Payload(At(i))) = Str("campaign")

\* C9 (as claimed): a native item whose remove value is not a string, or
\* whose create/update value is not a field mapping (a string, a number,
\* null, an array), is never emitted, with or without _entity: the call
\* throws an error tagged with its position.
MalformedPayload(op) ==
  /\ Native(op)
  /\ \/ VerbKey(op) = "remove" /\ Payload(op).t # "string"
     \/ VerbKey(op) \in {"create", "update"} /\ Payload(op).t # "object"

C9_MalformedPayloadThrows ==
  /\ outcome.status = "returned" => \A k \in Positions : ~MalformedPayload(At(k))
  /\ (outcome.status = "thrown" /\ MalformedPayload(At(i))) =>
       StartsWith(outcome.message, OperationTag(i))

\* C10 (as claimed): a native item with both a create and an update key,
\* or with none of create/update/remove, is never emitted: no successful
\* call had such an item in its input.
C10_ExactlyOneVerb ==
  outcome.status = "returned" =>
    \A k \in Positions :
      Native(At(k)) =>
        /\ ~(HasKey(At(k), "create") /\ HasKey(At(k), "update"))
        /\ VerbKey(At(k)) # "none"

\* C10 (amended): a native item with none of create/update/remove is never
\* emitted; the call throws "Operation k: Invalid format" at its position.
\* An item with both create and update is accepted and handled as a create:
\* the update key is ignored.
C10_NoVerbThrows ==
  /\ \A k \in Built : Native(At(k)) => VerbKey(At(k)) # "none"
  /\ (outcome.status = "thrown" /\ VerbKey(At(i)) = "none") =>
       StartsWith(outcome.message, OperationTag(i) \o "Invalid format")
  /\ \A k \in Built :
       (Native(At(k)) /\ HasKey(At(k), "create") /\ HasKey(At(k), "update")) =>
         /\ Get(Emitted(k), "operation") = Str("create")
         /\ Get(Emitted(k), "resource").v = WithoutName(At(k).v["create"])
            \/ Get(Emitted(k), "resource") = At(k).v["create"]

C10_Witness ==
  /\ outcome.status = "thrown"
  /\ i = 1 /\ Len(normalizedOps) = 1
  /\ HasKey(At(0), "create") /\ HasKey(At(0), "update")
  /\ Native(At(1)) /\ VerbKey(At(1)) = "none"

\* C11 (as claimed): the parser returns the lexicon's kind for a string
\* with at least 3 '/'-segments, first segment "customers" and third segment
\* a key of the lexicon, and null for every other input.
NamesLexiconPath(x) ==
  /\ x.t = "string"
  /\ Len(Split(x.v)) >= 3
  /\ Split(x.v)[1] = "customers"
  /\ Split(x.v)[3] \in DOMAIN RESOURCE_PATH_TO_ENTITY

C11_ParserLexiconOrNone ==
  pc = "parsed" =>
    helperRet = IF NamesLexiconPath(helperArg)
                  THEN Str(RESOURCE_PATH_TO_ENTITY[Split(helperArg.v)[3]])
                  ELSE Null

\* C12: the classifier returns the result of the first matching rule of
\* the ordered list, and none when no rule matches. In particular
\* {ad_group, campaign, keyword} is an ad_group_criterion, and
\* {campaign, keyword, advertising_channel_type} is a campaign.
RuleKinds ==
  <<"ad_group_criterion", "campaign_criterion", "shared_criterion", "label",
    "ad_group", "campaign", "campaign_budget", "asset", "conversion_action">>

RuleMatches(n, f) ==
  CASE n = 1 -> "ad_group" \in f /\ f \cap {"keyword", "negative", "placement"} # {}
    [] n = 2 -> /\ "campaign" \in f /\ f \cap {"keyword", "negative"} # {}
                /\ "advertising_channel_type" \notin f
    [] n = 3 -> "shared_set" \in f
    [] n = 4 -> {"name", "text_label"} \subseteq f
    [] n = 5 -> {"campaign", "name"} \subseteq f /\ f \cap {"keyword", "negative"} = {}
    [] n = 6 -> "advertising_channel_type" \in f
    [] n = 7 -> "amount_micros" \in f /\ "cpc_bid_micros" \notin f
    [] n = 8 -> \E k \in f : EndsWith(k, "_asset")
    [] n = 9 -> {"type", "category"} \subseteq f

FirstMatch(f) ==
  LET matching == {n \in 1..Len(RuleKinds) : RuleMatches(n, f)}
  IN IF matching = {} THEN Null
     ELSE Str(RuleKinds[CHOOSE n \in matching : \A m \in matching : n <= m])

C12_FirstMatchingRule ==
  (pc = "classified" /\ helperArg.t = "object") =>
    /\ helperRet = FirstMatch(DOMAIN helperArg.v)
    /\ DOMAIN helperArg.v = {"ad_group", "campaign", "keyword"}
         => helperRet = Str("ad_group_criterion")
    /\ DOMAIN helperArg.v = {"campaign", "keyword", "advertising_channel_type"}
         => helperRet = Str("campaign")

C12_Witness ==
  /\ pc = "classified"
  /\ helperArg.t = "object"
  /\ DOMAIN helperArg.v = {"ad_group", "campaign", "keyword"}
  /\ helperRet = Str("ad_group_criterion")

\* C13: a native { remove: s } whose s names a lexicon path is emitted as
\* { entity: the lexicon's kind, operation: "remove", resource: s } with s
\* the bare string, and exactly one warning names its index and entity.
NativeRemove(op) == Native(op) /\ VerbKey(op) = "remove"

RemovesLexiconPath(op) == NativeRemove(op) /\ NamesLexiconPath(Payload(op))

KindOf(name) == RESOURCE_PATH_TO_ENTITY[Split(name.v)[3]]

C14_InputNeverMutated == [][operations' = operations]_vars

C14_Witness ==
  /\ outcome.status = "returned"
  /\ Len(operations) = 2
  /\ NativeCreate(At(0))
  /\ HasKey(Payload(At(0)), "resource_name")
  /\ ~HasKey(Get(outcome.operations[1], "resource"), "resource_name")
  /\ Canonical(At(1))
  /\ Get(At(1), "resource").t = "object"
  /\ Get(outcome.operations[2], "resource").t = "string"

\* a canonical remove whose resource is a field mapping
CanonicalRemoveOfMapping(op) ==
  /\ Canonical(op)
  /\ Get(op, "operation") = Str("remove")
  /\ Get(op, "resource").t = "object"

\* the item with its resource replaced, every other field kept
WithResource(op, r) == Obj([op.v EXCEPT !["resource"] = r])

NoWarningFor(k) ==
  \A n \in 1..Len(outcome.warnings) : ~StartsWith(outcome.warnings[n], OperationTag(k))

\* C15 (as claimed): a canonical remove whose resource is a mapping is
\* emitted with the resource replaced by the mapping's resource_name value,
\* or by the mapping itself when that field is absent, every other field
\* kept; every other canonical item is emitted as is; no warning for either.
C15_RepairByPresence ==
  outcome.status = "returned" =>
    \A k \in Positions :
      Canonical(At(k)) =>
        /\ NoWarningFor(k)
        /\ outcome.operations[k + 1] =
             IF CanonicalRemoveOfMapping(At(k))
               THEN LET r == Get(At(k), "resource")
                    IN WithResource(At(k), IF HasKey(r, "resource_name")
                                             THEN r.v["resource_name"] ELSE r)
               ELSE At(k)

\* C15 (amended): the resource is replaced by the mapping's resource_name
\* value when that value is truthy, and by the mapping itself when the
\* field is absent or falsy (e.g. the empty string).
C15_RepairByTruthiness ==
  outcome.status = "returned" =>
    \A k \in Positions :
      Canonical(At(k)) =>
        /\ NoWarningFor(k)
        /\ outcome.operations[k + 1] =
             IF CanonicalRemoveOfMapping(At(k))
               THEN LET r == Get(At(k), "resource")
                    IN WithResource(At(k), IF HasKey(r, "resource_name")
                                                /\ Truthy(r.v["resource_name"])
                                             THEN r.v["resource_name"] ELSE r)
               ELSE At(k)

C15_Witness ==
  /\ outcome.status = "returned"
  /\ Len(operations) = 2
  /\ CanonicalRemoveOfMapping(At(0))
  /\ HasKey(At(0), "note")
  /\ outcome.operations[1] =
       Obj([entity |-> Str("label"), operation |-> Str("remove"),
            resource |-> LabelName, note |-> Str("cleanup")])
  /\ CanonicalRemoveOfMapping(At(1))
  /\ Get(Get(At(1), "resource"), "resource_name") = Str("")
  /\ outcome.operations[2] = At(1)
  /\ outcome.warnings = << >>

\* C16: getStandardOperationType is "create" when the key create is
\* present, else "update" when update is, else "remove" when remove is, and
\* none for a non-object or an object with none of the three; a native
\* item is emitted with exactly this verb, and one classified as none ends
\* the call with "Operation k: Invalid format", never skipped.
C16_VerbPriority ==
  /\ \A k \in Positions :
       getStandardOperationType(At(k)) =
         IF At(k).t \in {"object", "array"} /\ VerbKey(At(k)) # "none"
           THEN Str(VerbKey(At(k)))
           ELSE Null
  /\ \A k \in Built :
       Native(At(k)) =>
         /\ VerbKey(At(k)) # "none"
         /\ Get(Emitted(k), "operation") = Str(VerbKey(At(k)))
  /\ Len(normalizedOps) = i
  /\ (pc = "done" /\ \E k \in Positions : Native(At(k)) /\ VerbKey(At(k)) = "none") =>
       outcome.status = "thrown"
  /\ (outcome.status = "thrown" /\ VerbKey(At(i)) = "none") =>
       StartsWith(outcome.message, OperationTag(i) \o "Invalid format")

C16_Witness ==
  /\ outcome.status = "thrown"
  /\ i = 1 /\ Len(normalizedOps) = 1
  /\ HasKey(At(0), "update") /\ HasKey(At(0), "remove")
  /\ Get(Emitted(0), "operation") = Str("update")
  /\ At(1).t # "object"
  /\ StartsWith(outcome.message, "Operation 1: Invalid format")

\* C17 (as claimed): every record a successful call returns is canonical
\* (a string entity, a defined resource), so a second call on the returned
\* operations succeeds and returns them unchanged with no warning, also for
\* items resolved through _entity.
C17_OutputClosed ==
  /\ outcome.status = "returned" =>
       \A n \in 1..Len(outcome.operations) : Canonical(outcome.operations[n])
  /\ (round = 2 /\ pc = "done") => outcome = Returned(operations, << >>)

====
